---- MODULE Spec2Model ----
(***************************************************************************)
(* Model of TooN's Cholesky<Size, Size, Precision> (src/Cholesky.h): the   *)
(* square-root-free L*D*L.T() decomposition held in my_cholesky, and the   *)
(* operations built on it (backsub, get_inverse, determinant).             *)
(*                                                                         *)
(* Precision is modelled as exact rational arithmetic extended with the    *)
(* IEEE non-finite values.  A value is a pair <<n, d>>:                    *)
(*     d > 0          the rational n/d in lowest terms                     *)
(*     <<1, 0>>       +infinity        <<-1, 0>>   -infinity               *)
(*     <<0, 0>>       NaN                                                  *)
(* Rounding and overflow are not modelled.  The sign of zero is not        *)
(* modelled either: every divisor in the code is a value "val" that starts *)
(* from an input entry and is only changed by "val -= ...", which never    *)
(* produces -0 from inputs that hold no -0, so 1/0 is always +infinity.    *)
(***************************************************************************)
EXTENDS Integers, Sequences, FiniteSets, TLC

\* Largest engine size N explored (sizes 0 .. MaxN).
MaxN == 3

(***************************************************************************)
(* Precision arithmetic                                                    *)
(***************************************************************************)
RECURSIVE GCD(_, _)
GCD(a, b) == IF b = 0 THEN a ELSE GCD(b, a % b)

Abs(x) == IF x < 0 THEN -x ELSE x

Sgn(x) == IF x < 0 THEN -1 ELSE IF x = 0 THEN 0 ELSE 1

\* n/d with d >= 0, brought to the canonical pair.
Norm(n, d) ==
    IF d = 0 THEN <<Sgn(n), 0>>
    ELSE LET g == GCD(Abs(n), d) IN <<n \div g, d \div g>>

Rat(n) == <<n, 1>>

NaN == <<0, 0>>

IsFinite(a) == a[2] # 0

\* a * b
Mul(a, b) == Norm(a[1] * b[1], a[2] * b[2])

\* a - b
Sub(a, b) ==
    IF a[2] = 0 /\ b[2] = 0
    THEN IF a[1] = 0 \/ b[1] = 0 \/ a = b THEN NaN ELSE a
    ELSE Norm(a[1] * b[2] - b[1] * a[2], a[2] * b[2])

\* a + b
Add(a, b) == Sub(a, <<-b[1], b[2]>>)

\* 1 / a with a zero divisor guarded: the reciprocal of 0 taken to be 0.
Inv_ZeroGuarded(a) ==
    IF a = <<0, 1>> THEN a ELSE IF a[1] < 0 THEN <<-a[2], -a[1]>> ELSE <<a[2], a[1]>>

\* 1 / a
Inv(a) == IF a[1] < 0 THEN <<-a[2], -a[1]>> ELSE <<a[2], a[1]>>

\* a / b
Div(a, b) ==
    IF b[1] < 0 THEN Norm(-(a[1] * b[2]), a[2] * (-b[1]))
    ELSE Norm(a[1] * b[2], a[2] * b[1])

(***************************************************************************)
(* Matrices and vectors of the dense linear-algebra collaborator.          *)
(* A Matrix argument is a record [nr, nc, e] with e[row][col]; a Vector is *)
(* a function over 0 .. size-1.  Indices are 0-based as in the source.     *)
(***************************************************************************)
Idx(n) == 0 .. n - 1

\* The function f restricted to 0 .. k-1, with its values computed once.
RECURSIVE Tabulate(_, _)
Tabulate(f, k) == IF k = 0 THEN <<>> ELSE Tabulate(f, k - 1) @@ ((k - 1) :> f[k - 1])

VSize(v) == Cardinality(DOMAIN v)

Mat(nr, nc, e) == [nr |-> nr, nc |-> nc, e |-> e]

Identity(n) ==
    Mat(n, n, [i \in Idx(n) |-> [j \in Idx(n) |-> IF i = j THEN Rat(1) ELSE Rat(0)]])

\* SizeMismatch<..>::test(a, b): TRUE when the test raises.
SizeMismatch(a, b) == a # b

\* The value of an operation that returned nothing.
NoValue == <<>>

(***************************************************************************)
(* compute                                                                 *)
(***************************************************************************)
\* The col2 loop reading L[col][col2] where the code reads the cached product.
RECURSIVE Col2Loop_LowerOnly(_, _, _, _, _)
Col2Loop_LowerOnly(buf, val, row, col, col2) ==
    IF col2 < col
    THEN Col2Loop_LowerOnly(buf, Sub(val, Mul(buf[col][col2], buf[row][col2])),
                            row, col, col2 + 1)
    ELSE val

\* for(col2 = 0; col2 < col; col2++) val -= my_cholesky(col2,col) * my_cholesky(row,col2)
RECURSIVE Col2Loop(_, _, _, _, _)
Col2Loop(buf, val, row, col, col2) ==
    IF col2 < col
    THEN Col2Loop(buf, Sub(val, Mul(buf[col2][col], buf[row][col2])), row, col, col2 + 1)
    ELSE val

\* The row iteration starting from the transposed cell my_cholesky(col,row).
RowVal_Transposed(buf, row, col) == Col2Loop(buf, buf[col][row], row, col, 0)

\* The value a row iteration holds after its col2 loop.
RowVal(buf, row, col) == Col2Loop(buf, buf[row][col], row, col, 0)

\* The stores of a row iteration that refreshes inv_diag in every row.
RowWrite_EveryRowSetsInv(st, row, col, val) ==
    IF row = col
    THEN [buf |-> [st.buf EXCEPT ![row][col] = val], inv_diag |-> Inv(val)]
    ELSE [buf |-> [st.buf EXCEPT ![col][row] = val,
                                 ![row][col] = Mul(val, st.inv_diag)],
          inv_diag |-> Inv(val)]

\* The stores of a row iteration; st = [buf, inv_diag].
RowWrite(st, row, col, val) ==
    IF row = col
    THEN [buf |-> [st.buf EXCEPT ![row][col] = val], inv_diag |-> Inv(val)]
    ELSE [buf |-> [st.buf EXCEPT ![col][row] = val,
                                 ![row][col] = Mul(val, st.inv_diag)],
          inv_diag |-> st.inv_diag]

\* One iteration of the row loop.
RowBody(st, row, col) == RowWrite(st, row, col, RowVal(st.buf, row, col))

\* for(row = col; row < size; row++)
RECURSIVE RowLoop(_, _, _, _)
RowLoop(st, size, col, row) ==
    IF row < size THEN RowLoop(RowBody(st, row, col), size, col, row + 1) ELSE st

\* for(col = 0; col < size; col++) { Precision inv_diag; ... }
\* u is the content of the uninitialised inv_diag.
RECURSIVE ColLoop(_, _, _, _)
ColLoop(buf, size, col, u) ==
    IF col < size
    THEN ColLoop(RowLoop([buf |-> buf, inv_diag |-> u], size, col, col).buf,
                 size, col + 1, u)
    ELSE buf

\* compute with the copy of m made before the size tests.
compute_CopyBeforeTest(buf, size, m, u) ==
    IF SizeMismatch(m.nr, m.nc) \/ SizeMismatch(m.nr, size)
    THEN [buf |-> m.e, err |-> TRUE]
    ELSE [buf |-> ColLoop(m.e, size, 0, u), err |-> FALSE]

\* compute without the copy of m: the decomposition runs on what the buffer held.
compute_NoCopy(buf, size, m, u) ==
    IF SizeMismatch(m.nr, m.nc) \/ SizeMismatch(m.nr, size)
    THEN [buf |-> buf, err |-> TRUE]
    ELSE [buf |-> ColLoop(buf, size, 0, u), err |-> FALSE]

\* compute(m) on an engine whose buffer is buf with size rows.
compute(buf, size, m, u) ==
    IF SizeMismatch(m.nr, m.nc) \/ SizeMismatch(m.nr, size)
    THEN [buf |-> buf, err |-> TRUE]
    ELSE [buf |-> ColLoop(m.e, size, 0, u), err |-> FALSE]

(***************************************************************************)
(* backsub (Vector)                                                        *)
(***************************************************************************)
\* for(j = 0; j < i; j++) val -= my_cholesky(i,j) * y[j]
RECURSIVE ForwardInner(_, _, _, _, _)
ForwardInner(buf, y, val, i, j) ==
    IF j < i
    THEN ForwardInner(buf, y, Sub(val, Mul(buf[i][j], y[j])), i, j + 1)
    ELSE val

\* first backsub through L
RECURSIVE ForwardLoop(_, _, _, _, _)
ForwardLoop(buf, v, y, size, i) ==
    IF i < size
    THEN ForwardLoop(buf, v, y @@ (i :> ForwardInner(buf, y, v[i], i, 0)), size, i + 1)
    ELSE y

\* The diagonal pass multiplying by D[i] where the code divides.
RECURSIVE DiagLoop_Multiply(_, _, _, _)
DiagLoop_Multiply(buf, y, size, i) ==
    IF i < size
    THEN DiagLoop_Multiply(buf, [y EXCEPT ![i] = Mul(y[i], buf[i][i])], size, i + 1)
    ELSE y

\* backsub through diagonal: y[i] /= my_cholesky(i,i)
RECURSIVE DiagLoop(_, _, _, _)
DiagLoop(buf, y, size, i) ==
    IF i < size
    THEN DiagLoop(buf, [y EXCEPT ![i] = Div(y[i], buf[i][i])], size, i + 1)
    ELSE y

\* The inner loop of the last pass reading my_cholesky(i,j), a scratch cell.
RECURSIVE BackwardInner_Upper(_, _, _, _, _, _)
BackwardInner_Upper(buf, result, val, size, i, j) ==
    IF j < size
    THEN BackwardInner_Upper(buf, result, Sub(val, Mul(buf[i][j], result[j])),
                             size, i, j + 1)
    ELSE val

\* for(j = i+1; j < size; j++) val -= my_cholesky(j,i) * result[j]
RECURSIVE BackwardInner(_, _, _, _, _, _)
BackwardInner(buf, result, val, size, i, j) ==
    IF j < size
    THEN BackwardInner(buf, result, Sub(val, Mul(buf[j][i], result[j])), size, i, j + 1)
    ELSE val

\* backsub through L.T(): for(i = size-1; i >= 0; i--)
RECURSIVE BackwardLoop(_, _, _, _, _)
BackwardLoop(buf, y, result, size, i) ==
    IF i >= 0
    THEN BackwardLoop(buf, y,
                      result @@ (i :> BackwardInner(buf, result, y[i], size, i, i + 1)),
                      size, i - 1)
    ELSE result

\* backsub(v).  The vectors y and result are allocated uninitialised and every
\* cell is stored before it is loaded: they are functions over the cells stored so far.
backsub(buf, size, v) ==
    IF SizeMismatch(size, VSize(v))
    THEN [val |-> NoValue, err |-> TRUE]
    ELSE LET y1 == ForwardLoop(buf, v, <<>>, size, 0)
             y2 == DiagLoop(buf, y1, size, 0)
         IN  [val |-> BackwardLoop(buf, y2, <<>>, size, size - 1), err |-> FALSE]

(***************************************************************************)
(* backsub (Matrix): the rows of m, y and result are vectors of            *)
(* m.num_cols() right-hand sides.                                          *)
(***************************************************************************)
\* s * v and a - b on Vector<C2>
VScale(s, v) == Tabulate([c \in DOMAIN v |-> Mul(s, v[c])], VSize(v))

VMinus(a, b) == Tabulate([c \in DOMAIN a |-> Sub(a[c], b[c])], VSize(a))

RECURSIVE MForwardInner(_, _, _, _, _)
MForwardInner(buf, y, val, i, j) ==
    IF j < i
    THEN MForwardInner(buf, y, VMinus(val, VScale(buf[i][j], y[j])), i, j + 1)
    ELSE val

RECURSIVE MForwardLoop(_, _, _, _, _)
MForwardLoop(buf, m, y, size, i) ==
    IF i < size
    THEN MForwardLoop(buf, m, y @@ (i :> MForwardInner(buf, y, m.e[i], i, 0)),
                      size, i + 1)
    ELSE y

\* The diagonal pass scaling by D[i] where the code scales by 1 / D[i].
RECURSIVE MDiagLoop_NoReciprocal(_, _, _, _)
MDiagLoop_NoReciprocal(buf, y, size, i) ==
    IF i < size
    THEN MDiagLoop_NoReciprocal(buf, [y EXCEPT ![i] = VScale(buf[i][i], y[i])], size, i + 1)
    ELSE y

\* y[i] *= (1 / my_cholesky(i,i))
RECURSIVE MDiagLoop(_, _, _, _)
MDiagLoop(buf, y, size, i) ==
    IF i < size
    THEN MDiagLoop(buf, [y EXCEPT ![i] = VScale(Inv(buf[i][i]), y[i])], size, i + 1)
    ELSE y

RECURSIVE MBackwardInner(_, _, _, _, _, _)
MBackwardInner(buf, result, val, size, i, j) ==
    IF j < size
    THEN MBackwardInner(buf, result, VMinus(val, VScale(buf[j][i], result[j])),
                        size, i, j + 1)
    ELSE val

RECURSIVE MBackwardLoop(_, _, _, _, _)
MBackwardLoop(buf, y, result, size, i) ==
    IF i >= 0
    THEN MBackwardLoop(buf, y,
                       result @@ (i :> MBackwardInner(buf, result, y[i], size, i, i + 1)),
                       size, i - 1)
    ELSE result

\* backsub(m).  The matrices y and result are allocated uninitialised and every
\* row is stored before it is loaded: they are functions over the rows stored so far.
backsub_matrix(buf, size, m) ==
    IF SizeMismatch(size, m.nr)
    THEN [val |-> NoValue, err |-> TRUE]
    ELSE LET y1 == MForwardLoop(buf, m, <<>>, size, 0)
             y2 == MDiagLoop(buf, y1, size, 0)
         IN  [val |-> Mat(size, m.nc, MBackwardLoop(buf, y2, <<>>, size, size - 1)),
              err |-> FALSE]

(***************************************************************************)
(* get_inverse, determinant                                                *)
(***************************************************************************)
get_inverse(buf, size) == backsub_matrix(buf, size, Identity(size))

\* for(i = 1; i < my_cholesky.num_rows(); i++) answer *= my_cholesky(i,i)
RECURSIVE DetLoop(_, _, _, _)
DetLoop(buf, answer, size, i) ==
    IF i < size THEN DetLoop(buf, Mul(answer, buf[i][i]), size, i + 1) ELSE answer

\* determinant(): answer starts from my_cholesky(0,0), which lies outside the
\* buffer of an engine of size 0; g is what that out-of-bounds read yields.
determinant(buf, size, g) ==
    LET oob == ~(0 < size) IN
    [val |-> DetLoop(buf, IF oob THEN g ELSE buf[0][0], size, 1), oob |-> oob]

(***************************************************************************)
(* Arguments the callers pass                                              *)
(***************************************************************************)
OffVals == {-1, 0, 1}

DiagVals == {1, 2}

ToeplitzDiag == {0, 1, 2}

\* What uninitialised memory and out-of-bounds reads may hold.
UninitVals == {NaN, Rat(3)}

\* Contents of an upper triangle that does not mirror the lower one.
UpperVals == {NaN, Rat(2)}

LowerPairs(n) == { p \in Idx(n) \X Idx(n) : p[1] > p[2] }

\* The symmetric matrix with diagonal d and strict lower triangle l.
SymMat(n, d, l) ==
    Mat(n, n, [i \in Idx(n) |-> [j \in Idx(n) |->
        IF i = j THEN Rat(d[i]) ELSE IF i > j THEN Rat(l[<<i, j>>]) ELSE Rat(l[<<j, i>>])]])

\* m with every strict-upper entry replaced by x.
FillUpper(m, x) ==
    Mat(m.nr, m.nc, [i \in Idx(m.nr) |-> [j \in Idx(m.nc) |->
        IF i < j THEN x ELSE m.e[i][j]]])

\* The symmetric matrix implied by the lower triangle of the square matrix m.
LowerSym(m) ==
    Mat(m.nr, m.nc, [i \in Idx(m.nr) |-> [j \in Idx(m.nc) |->
        IF i < j THEN m.e[j][i] ELSE m.e[i][j]]])

SymMats(n) ==
    { SymMat(n, d, l) : d \in [Idx(n) -> DiagVals], l \in [LowerPairs(n) -> OffVals] }

\* Symmetric Toeplitz matrices: entry (i,j) is t[|i-j|].
ToeplitzMats(n) ==
    { Mat(n, n, [i \in Idx(n) |-> [j \in Idx(n) |-> Rat(t[Abs(i - j)])]]) :
        t \in { f \in [Idx(n) -> OffVals \cup ToeplitzDiag] :
                  \A k \in Idx(n) : IF k = 0 THEN f[k] \in ToeplitzDiag ELSE f[k] \in OffVals } }

WithUppers(ms) == ms \cup { FillUpper(m, x) : m \in ms, x \in UpperVals }

\* Matrices of every shape r x c, all entries one.
OnesMat(r, c) == Mat(r, c, [i \in Idx(r) |-> [j \in Idx(c) |-> Rat(1)]])

\* The matrix of the worked example: [[4, 2], [2, 3]].
ExampleM ==
    Mat(2, 2, [i \in Idx(2) |-> [j \in Idx(2) |->
        IF i # j THEN Rat(2) ELSE IF i = 0 THEN Rat(4) ELSE Rat(3)]])

ExampleMats(n) == IF n = 2 THEN {ExampleM} ELSE {}

UnitVecs(n) == { [i \in Idx(n) |-> IF i = k THEN Rat(1) ELSE Rat(0)] : k \in Idx(n) }

OnesVec(n) == [i \in Idx(n) |-> Rat(1)]

\* Right-hand sides: the unit vectors, the all-ones vector and two vectors of mixed sign.
Vecs(n) ==
    UnitVecs(n)
    \cup { OnesVec(n),
           [i \in Idx(n) |-> IF i % 2 = 0 THEN Rat(1) ELSE Rat(-1)],
           [i \in Idx(n) |-> IF i = 0 THEN Rat(-1) ELSE Rat(i)] }

\* Right-hand-side matrices with 0, 1 and 2 columns.
RhsMats(n) ==
    { Mat(n, 0, [i \in Idx(n) |-> <<>>]),
      Mat(n, 2, [i \in Idx(n) |-> [c \in Idx(2) |-> IF c = 0 THEN Rat(1) ELSE Rat(i)]]),
      Mat(n, 2, [i \in Idx(n) |-> [c \in Idx(2) |-> IF i = c THEN Rat(1) ELSE Rat(-1)]]) }

\* Every shape that is not n x n.
WrongShapes(n) ==
    { OnesMat(r, c) : r \in 0 .. MaxN, c \in 0 .. MaxN } \ { OnesMat(n, n) }

(***************************************************************************)
(* State                                                                   *)
(***************************************************************************)
VARIABLES
    N,            \* my_cholesky.num_rows(), fixed at construction
    my_cholesky,  \* the N x N buffer, my_cholesky[row][col]
    lastM,        \* the most recent successfully decomposed input, or NoMatrix
    ret,          \* the call that returned last: [op, arg, val, err, oob]
    pool,         \* the arguments the callers hold: [mats, vecs, rhs]
    order,        \* how the row iterations of compute are scheduled
    frame,        \* the running compute: [pc, m, col, inv_diag, vals, done]
    trace         \* history of the running compute: [written, stale, diagFirst, permuted]

vars == <<N, my_cholesky, lastM, ret, pool, order, frame, trace>>

NoMatrix == Mat(-1, -1, <<>>)

NoCall == [op |-> "none", arg |-> NoValue, val |-> NoValue, err |-> FALSE, oob |-> FALSE]

Idle == [pc |-> "idle", m |-> NoMatrix, col |-> 0, inv_diag |-> NaN,
         vals |-> <<>>, done |-> {}]

NoTrace == [written |-> {}, stale |-> FALSE, diagFirst |-> TRUE, permuted |-> FALSE]

\* Cholesky(int size): the buffer is allocated and left uninitialised.
Construct(n, u) ==
    /\ N = n
    /\ my_cholesky = [i \in Idx(n) |-> [j \in Idx(n) |-> u]]
    /\ lastM = NoMatrix
    /\ ret = NoCall
    /\ frame = Idle
    /\ trace = NoTrace

\* Cholesky(m): my_cholesky(m), then compute(m).
ConstructFrom(m, u) ==
    /\ N = m.nr
    /\ my_cholesky = compute(m.e, m.nr, m, u).buf
    /\ lastM = m
    /\ ret = NoCall
    /\ frame = Idle
    /\ trace = NoTrace

(***************************************************************************)
(* The operations, each call one step                                      *)
(***************************************************************************)
Compute ==
    \E m \in pool.mats, u \in UninitVals :
        LET r == compute(my_cholesky, N, m, u) IN
        /\ frame.pc = "idle"
        /\ my_cholesky' = r.buf
        /\ lastM' = IF r.err THEN lastM ELSE m
        /\ ret' = [op |-> "compute", arg |-> m, val |-> NoValue, err |-> r.err,
                   oob |-> FALSE]
        /\ UNCHANGED <<N, pool, order, frame, trace>>

BacksubVector ==
    \E v \in pool.vecs :
        LET r == backsub(my_cholesky, N, v) IN
        /\ frame.pc = "idle"
        /\ ret' = [op |-> "backsub", arg |-> v, val |-> r.val, err |-> r.err,
                   oob |-> FALSE]
        /\ UNCHANGED <<N, my_cholesky, lastM, pool, order, frame, trace>>

BacksubMatrix ==
    \E b \in pool.rhs :
        LET r == backsub_matrix(my_cholesky, N, b) IN
        /\ frame.pc = "idle"
        /\ ret' = [op |-> "backsub_matrix", arg |-> b, val |-> r.val, err |-> r.err,
                   oob |-> FALSE]
        /\ UNCHANGED <<N, my_cholesky, lastM, pool, order, frame, trace>>

GetInverse ==
    LET r == get_inverse(my_cholesky, N) IN
    /\ frame.pc = "idle"
    /\ ret' = [op |-> "get_inverse", arg |-> NoValue, val |-> r.val, err |-> r.err,
               oob |-> FALSE]
    /\ UNCHANGED <<N, my_cholesky, lastM, pool, order, frame, trace>>

Determinant ==
    \E g \in UninitVals :
        LET r == determinant(my_cholesky, N, g) IN
        /\ frame.pc = "idle"
        /\ ret' = [op |-> "determinant", arg |-> NoValue, val |-> r.val, err |-> FALSE,
                   oob |-> r.oob]
        /\ UNCHANGED <<N, my_cholesky, lastM, pool, order, frame, trace>>

(***************************************************************************)
(* Engines used through any sequence of calls                              *)
(***************************************************************************)
\* Symmetric tridiagonal Toeplitz matrices.
TridiagMats(n) == { m \in ToeplitzMats(n) : \A i, j \in Idx(n) : Abs(i - j) > 1 => m.e[i][j] = Rat(0) }

SeqPool(n) ==
    [mats |-> TridiagMats(n) \cup WrongShapes(n),
     vecs |-> UnitVecs(n) \cup { OnesVec(len) : len \in 0 .. MaxN },
     rhs  |-> { OnesMat(r, c) : r \in 0 .. MaxN, c \in 1 .. 2 }]

Init ==
    /\ \E n \in 0 .. MaxN, u \in UninitVals : Construct(n, u)
    /\ pool = SeqPool(N)
    /\ order = "sequential"

Next == Compute \/ BacksubVector \/ BacksubMatrix \/ GetInverse \/ Determinant

Spec == Init /\ [][Next]_vars

(***************************************************************************)
(* One engine of the dynamic size, one caller matrix (SpecFn)              *)
(***************************************************************************)
InitFn ==
    /\ \E n \in 0 .. MaxN, u \in UninitVals : Construct(n, u)
    /\ \E m \in SymMats(N) \cup ExampleMats(N) :
         pool = [mats |-> {m}, vecs |-> {}, rhs |-> {}]
    /\ order = "sequential"

NextFn == Compute \/ Determinant

SpecFn == InitFn /\ [][NextFn]_vars

(***************************************************************************)
(* compute, one row iteration at a time (SpecStep).  A row iteration is    *)
(* two steps: RowLoad runs its col2 loop, RowStore performs its stores.    *)
(* With order = "sequential" the iterations run as the code runs them;     *)
(* with order = "any" the iterations of one column run in any order and    *)
(* interleaving, columns still one after another.                          *)
(***************************************************************************)
RowsOf(c) == c .. N - 1

\* The col loop reaches its test with col = c.  inv_diag is declared in the loop body
\* and not initialised: it holds u.
EnterCol(m, c, u) ==
    IF c < N
    THEN /\ frame' = [pc |-> "rows", m |-> m, col |-> c, inv_diag |-> u,
                      vals |-> <<>>, done |-> {}]
         /\ UNCHANGED <<lastM, ret>>
    ELSE /\ frame' = Idle
         /\ lastM' = m
         /\ ret' = [op |-> "compute", arg |-> m, val |-> NoValue, err |-> FALSE,
                    oob |-> FALSE]

BeginCompute ==
    \E m \in pool.mats, u \in UninitVals :
        /\ frame.pc = "idle"
        /\ IF SizeMismatch(m.nr, m.nc) \/ SizeMismatch(m.nr, N)
           THEN /\ ret' = [op |-> "compute", arg |-> m, val |-> NoValue, err |-> TRUE,
                           oob |-> FALSE]
                /\ UNCHANGED <<my_cholesky, lastM, frame, trace>>
           ELSE /\ my_cholesky' = m.e
                /\ trace' = NoTrace
                /\ EnterCol(m, 0, u)
        /\ UNCHANGED <<N, pool, order>>

RowLoad ==
    \E row \in RowsOf(frame.col) :
        /\ frame.pc = "rows"
        /\ row \notin DOMAIN frame.vals \cup frame.done
        /\ order = "sequential" =>
             /\ frame.vals = <<>>
             /\ row = frame.col + Cardinality(frame.done)
        /\ frame' = [frame EXCEPT
                       !.vals = frame.vals @@ (row :> RowVal(my_cholesky, row, frame.col))]
        /\ trace' = [trace EXCEPT
                       !.stale = @ \/ \E col2 \in Idx(frame.col) :
                                        <<col2, frame.col>> \notin trace.written,
                       !.permuted = @ \/ frame.vals # <<>>
                                      \/ row # frame.col + Cardinality(frame.done)]
        /\ UNCHANGED <<N, my_cholesky, lastM, ret, pool, order>>

RowStore ==
    \E row \in DOMAIN frame.vals :
        LET st == RowWrite([buf |-> my_cholesky, inv_diag |-> frame.inv_diag],
                           row, frame.col, frame.vals[row])
        IN
        /\ frame.pc = "rows"
        /\ my_cholesky' = st.buf
        /\ frame' = [frame EXCEPT
                       !.inv_diag = st.inv_diag,
                       !.vals = [r \in DOMAIN frame.vals \ {row} |-> frame.vals[r]],
                       !.done = @ \cup {row}]
        /\ trace' = [trace EXCEPT
                       !.written = @ \cup {<<row, frame.col>>, <<frame.col, row>>},
                       !.diagFirst = @ /\ (row = frame.col \/ frame.col \in frame.done)]
        /\ UNCHANGED <<N, lastM, ret, pool, order>>

NextCol ==
    \E u \in UninitVals :
        /\ frame.pc = "rows"
        /\ frame.done = RowsOf(frame.col)
        /\ EnterCol(frame.m, frame.col + 1, u)
        /\ UNCHANGED <<N, my_cholesky, pool, order, trace>>

StepMats(n) == WithUppers(ToeplitzMats(n))

InitStep ==
    /\ \E n \in 0 .. MaxN, u \in UninitVals : Construct(n, u)
    /\ \E m \in StepMats(N) : pool = [mats |-> {m}, vecs |-> {}, rhs |-> {}]
    /\ order \in {"sequential", "any"}

NextStep == BeginCompute \/ RowLoad \/ RowStore \/ NextCol

SpecStep == InitStep /\ [][NextStep]_vars

(***************************************************************************)
(* Reference linear algebra, independent of the engine                     *)
(***************************************************************************)
\* The integer entries of a matrix argument.
IntOf(m) == [i \in Idx(m.nr) |-> [j \in Idx(m.nc) |-> m.e[i][j][1]]]

\* a without row 0 and column j.
Minor(a, k, j) ==
    [i \in Idx(k - 1) |-> [c \in Idx(k - 1) |-> a[i + 1][IF c < j THEN c ELSE c + 1]]]

\* Determinant of the integer k x k matrix a by cofactor expansion along row 0.
RECURSIVE CofactorDet(_, _)
RECURSIVE CofactorSum(_, _, _)
CofactorSum(a, k, j) ==
    IF j = k THEN 0
    ELSE (IF j % 2 = 0 THEN 1 ELSE -1) * a[0][j] * CofactorDet(Minor(a, k, j), k - 1)
         + CofactorSum(a, k, j + 1)

CofactorDet(a, k) == IF k = 0 THEN 1 ELSE CofactorSum(a, k, 0)

IsMatrix(m) == m.nr >= 0

IsSymmetric(m) ==
    /\ m.nr = m.nc
    /\ \A i, j \in Idx(m.nr) : IsFinite(m.e[i][j]) /\ m.e[i][j] = m.e[j][i]

\* Symmetric positive definite, by Sylvester's criterion.
IsSPD(m) ==
    /\ IsMatrix(m)
    /\ IsSymmetric(m)
    /\ \A k \in 1 .. m.nr : CofactorDet(IntOf(m), k) > 0

\* Sum of f[0] .. f[k-1].
RECURSIVE SumTo(_, _)
SumTo(f, k) == IF k = 0 THEN Rat(0) ELSE Add(SumTo(f, k - 1), f[k - 1])

\* L and D as the buffer stores them.
LOf(buf, i, j) == IF i = j THEN Rat(1) ELSE IF i > j THEN buf[i][j] ELSE Rat(0)

DOf(buf, i) == buf[i][i]

\* (L * D * L.T())[i][j]
LDLt(buf, n) ==
    [i \in Idx(n) |-> [j \in Idx(n) |->
        SumTo([k \in Idx(n) |-> Mul(Mul(LOf(buf, i, k), DOf(buf, k)), LOf(buf, j, k))], n)]]

\* (m * x)[i] for a matrix argument m and a vector x.
MatVec(m, x) ==
    [i \in Idx(m.nr) |-> SumTo([k \in Idx(m.nc) |-> Mul(m.e[i][k], x[k])], m.nc)]

\* a * b for matrix arguments.
MatMul(a, b) ==
    Mat(a.nr, b.nc, [i \in Idx(a.nr) |-> [j \in Idx(b.nc) |->
        SumTo([k \in Idx(a.nc) |-> Mul(a.e[i][k], b.e[k][j])], a.nc)]])

\* Product of the diagonal of the buffer; 1 for the empty buffer.
RECURSIVE DiagProduct(_, _)
DiagProduct(buf, k) ==
    IF k = 0 THEN Rat(1) ELSE Mul(DiagProduct(buf, k - 1), buf[k - 1][k - 1])

(***************************************************************************)
(* Claims on engines used through any sequence of calls (Spec)             *)
(***************************************************************************)
\* Whether the call that has just returned had an argument of the wrong shape.
Mismatched ==
    \/ ret.op = "compute" /\ (ret.arg.nr # ret.arg.nc \/ ret.arg.nr # N)
    \/ ret.op = "backsub" /\ VSize(ret.arg) # N
    \/ ret.op = "backsub_matrix" /\ ret.arg.nr # N

\* C5: a compute whose argument is not square or not of size N, and a backsub whose
\* vector length or matrix row count is not N, raise DimensionMismatch, return no
\* value and leave the buffer and N as they were before the call.
C5_DimensionMismatch ==
    [][Mismatched' =>
         /\ ret'.err
         /\ ret'.val = NoValue
         /\ my_cholesky' = my_cholesky
         /\ N' = N]_vars

C5_Witness ==
    /\ ret.op = "compute"
    /\ ret.err
    /\ ret.arg.nr # ret.arg.nc
    /\ lastM # NoMatrix
    /\ N >= 2

\* C8: once a compute has succeeded, whatever calls follow (failed ones included), the
\* buffer is the one a freshly constructed engine of size N holds after compute of the
\* most recent successfully decomposed input, whatever the fresh buffer held.
C8_BufferIsLastCompute ==
    lastM # NoMatrix =>
        /\ N = lastM.nr
        /\ \A u1, u2 \in UninitVals :
             LET fresh == [i \in Idx(N) |-> [j \in Idx(N) |-> u1]]
                 r     == compute(fresh, N, lastM, u2)
             IN  ~r.err /\ my_cholesky = r.buf

C8_Witness ==
    /\ lastM # NoMatrix
    /\ N >= 2
    /\ ret.op = "compute"
    /\ ret.err
    /\ ret.arg.nr = ret.arg.nc

(***************************************************************************)
(* Engines constructed from a symmetric positive-definite matrix and then  *)
(* queried (SpecSolve)                                                     *)
(***************************************************************************)
SPDMats(n) == { m \in SymMats(n) \cup ExampleMats(n) : IsSPD(m) }

InitSolve ==
    /\ \E n \in 0 .. MaxN : \E m \in SPDMats(n), u \in UninitVals : ConstructFrom(m, u)
    /\ pool = [mats |-> {}, vecs |-> Vecs(N), rhs |-> RhsMats(N)]
    /\ order = "sequential"

NextSolve == BacksubVector \/ BacksubMatrix \/ GetInverse \/ Determinant

SpecSolve == InitSolve /\ [][NextSolve]_vars

(***************************************************************************)
(* Claims on the decomposition (SpecFn)                                    *)
(***************************************************************************)
\* C1: after compute(M) of a symmetric positive-definite M, L*D*L.T() rebuilt from the
\* strict lower triangle and the diagonal of the buffer equals M in every entry.
C1_Reconstruction ==
    (lastM # NoMatrix /\ IsSPD(lastM)) => LDLt(my_cholesky, N) = lastM.e

\* The worked example: D = (4, 2), L[1][0] = 1/2.
C1_Witness ==
    /\ ret.op = "compute"
    /\ lastM = ExampleM
    /\ my_cholesky[0][0] = Rat(4)
    /\ my_cholesky[1][1] = Rat(2)
    /\ my_cholesky[1][0] = <<1, 2>>

\* C4: determinant() returns the product of the N diagonal entries of the buffer (1
\* for N = 0) and reads no cell outside the buffer; after compute of a symmetric
\* positive-definite M it is the determinant of M by cofactor expansion.
C4_Determinant ==
    ret.op = "determinant" =>
        /\ ~ret.oob
        /\ ret.val = DiagProduct(my_cholesky, N)
        /\ (lastM # NoMatrix /\ IsSPD(lastM)) => ret.val = Rat(CofactorDet(IntOf(lastM), N))

(***************************************************************************)
(* Claims on the solves (SpecSolve)                                        *)
(***************************************************************************)
\* C2: after compute(M) of a symmetric positive-definite M, backsub(v) returns r with
\* M*r = v, and backsub(M*x) returns x.
C2_SolveVector ==
    (ret.op = "backsub" /\ IsSPD(lastM)) =>
        /\ ~ret.err
        /\ VSize(ret.val) = N
        /\ MatVec(lastM, ret.val) = ret.arg
        /\ backsub(my_cholesky, N, MatVec(lastM, ret.arg)).val = ret.arg

\* The worked example: backsub((1, 1)) = (1/8, 1/4).
C2_Witness ==
    /\ ret.op = "backsub"
    /\ lastM = ExampleM
    /\ ret.arg = OnesVec(2)
    /\ ret.val[0] = <<1, 8>>
    /\ ret.val[1] = <<1, 4>>

\* C3: after compute(M) of a symmetric positive-definite M, backsub(B) has N rows and
\* the columns of B and M*backsub(B) = B; get_inverse() is backsub(Identity(N)) and
\* M*get_inverse() = get_inverse()*M = Identity(N).
C3_SolveMatrix ==
    /\ (ret.op = "backsub_matrix" /\ IsSPD(lastM)) =>
         /\ ~ret.err
         /\ ret.val.nr = N
         /\ ret.val.nc = ret.arg.nc
         /\ MatMul(lastM, ret.val) = ret.arg
    /\ (ret.op = "get_inverse" /\ IsSPD(lastM)) =>
         /\ ~ret.err
         /\ ret.val = backsub_matrix(my_cholesky, N, Identity(N)).val
         /\ MatMul(lastM, ret.val) = Identity(N)
         /\ MatMul(ret.val, lastM) = Identity(N)

\* The worked example: the inverse is [[3/8, -1/4], [-1/4, 1/2]].
C3_Witness ==
    /\ ret.op = "get_inverse"
    /\ lastM = ExampleM
    /\ ret.val.e[0][0] = <<3, 8>>
    /\ ret.val.e[0][1] = <<-1, 4>>
    /\ ret.val.e[1][0] = <<-1, 4>>
    /\ ret.val.e[1][1] = <<1, 2>>

\* The buffer with every strict-upper cell replaced by x.
ScrubUpper(buf, n, x) ==
    [i \in Idx(n) |-> [j \in Idx(n) |-> IF i < j THEN x ELSE buf[i][j]]]

\* C7: backsub(vector), backsub(matrix), get_inverse() and determinant() return the
\* same result on the same argument from any buffer that agrees with my_cholesky on the
\* diagonal and the strict lower triangle, whatever its strict upper triangle holds
\* (a NaN there would reach the result of any operation that read it).
C7_ScratchNeverRead ==
    \A x \in UpperVals :
        LET other == ScrubUpper(my_cholesky, N, x) IN
        /\ (ret.op = "backsub" /\ ~ret.err) => backsub(other, N, ret.arg).val = ret.val
        /\ (ret.op = "backsub_matrix" /\ ~ret.err) =>
             backsub_matrix(other, N, ret.arg).val = ret.val
        /\ ret.op = "get_inverse" => get_inverse(other, N).val = ret.val
        /\ (ret.op = "determinant" /\ ~ret.oob) => determinant(other, N, x).val = ret.val

\* A solve from a buffer whose scratch triangle holds non-zero values.
C7_Witness ==
    /\ N = MaxN
    /\ ret.op = "backsub"
    /\ \A i, j \in Idx(N) : i < j => my_cholesky[i][j] \notin {Rat(0)} \cup UpperVals
    /\ \A i \in Idx(N) : ret.val[i] # Rat(0)

(***************************************************************************)
(* Claims on the steps of compute (SpecStep)                               *)
(***************************************************************************)
\* compute has returned successfully and nothing has been called since.
Returned == frame.pc = "idle" /\ ret.op = "compute" /\ ~ret.err

\* The buffer compute(m) leaves when it runs as the code runs it.
Sequential(m) == ColLoop(m.e, m.nr, 0, NaN)

HasUpper(m, x) == \A i, j \in Idx(m.nr) : i < j => m.e[i][j] = x

\* C6: compute never loads a strict-upper cell that it has not itself stored since the
\* copy of the input, and the buffer it leaves is the one it leaves for the symmetric
\* matrix implied by the lower triangle of the input, in every cell.
C6_LowerHalfOnly ==
    /\ ~trace.stale
    /\ (Returned /\ order = "sequential") => my_cholesky = Sequential(LowerSym(lastM))

C6_Witness ==
    /\ Returned
    /\ order = "sequential"
    /\ N = MaxN
    /\ HasUpper(lastM, NaN)
    /\ \A i, j \in Idx(N) : IsFinite(my_cholesky[i][j]) /\ my_cholesky[i][j] # Rat(0)

\* C9 as stated: the row iterations of a column run in any order or interleaving
\* leave the buffer of the sequential order.
C9_AnyOrder ==
    Returned => my_cholesky = Sequential(lastM)

\* C9 amended: the same, provided that in every column the row = col iteration has
\* performed its stores before any other iteration of the column performs its own.
C9_DiagonalFirst ==
    (Returned /\ trace.diagFirst) => my_cholesky = Sequential(lastM)

C9_Witness ==
    /\ Returned
    /\ order = "any"
    /\ N = MaxN
    /\ trace.diagFirst
    /\ trace.permuted
    /\ IsSPD(lastM)

\* The column of the zero pivot, if any.
ZeroPivots == { z \in Idx(N) : my_cholesky[z][z] = Rat(0) }

\* m with 1 added to the diagonal entry z.
Bump(m, z) ==
    Mat(m.nr, m.nc, [i \in Idx(m.nr) |-> [j \in Idx(m.nc) |->
        IF i = z /\ j = z THEN Add(m.e[i][j], Rat(1)) ELSE m.e[i][j]]])

\* C10: a diagonal value D[col] = 0 raises nothing and compute runs to its end; the
\* reciprocal of D[col] is non-finite, so is every L[row][col] below it and every
\* diagonal and strict-lower entry of the later columns; the diagonal and strict-lower
\* entries of the columns before col are finite and are what they are for an input
\* whose pivot col is not zero.
C10_ZeroPivot ==
    /\ (order = "sequential" /\ frame.pc = "rows" /\ frame.col \in frame.done
          /\ my_cholesky[frame.col][frame.col] = Rat(0))
       => ~IsFinite(frame.inv_diag)
    /\ (order = "sequential" /\ Returned) =>
         \A z \in ZeroPivots :
            LET other == Sequential(Bump(lastM, z)) IN
            /\ \A row \in Idx(N) : row > z => ~IsFinite(my_cholesky[row][z])
            /\ \A c \in Idx(N), row \in Idx(N) :
                 (c > z /\ row >= c) => ~IsFinite(my_cholesky[row][c])
            /\ \A c \in Idx(N), row \in Idx(N) :
                 (c < z /\ row >= c) =>
                    IsFinite(my_cholesky[row][c]) /\ my_cholesky[row][c] = other[row][c]

C10_Witness ==
    /\ order = "sequential"
    /\ Returned
    /\ N = MaxN
    /\ 1 \in ZeroPivots
    /\ my_cholesky[1][0] # Rat(0)

====
